---- MODULE Spec2Model ----
(***************************************************************************)
(* PYPOWER: the DC PTDF builder (pypower/makePTDF.py) and the OPF          *)
(* objective evaluator (pypower/opf_costfcn.py) as state machines.         *)
(*                                                                         *)
(* Both routines are pure functions.  Each specification draws a call's    *)
(* arguments in its initial states and has one action, the call, which     *)
(* fills in the routine's local variables and its result.                  *)
(*                                                                         *)
(* Numbers: the floating point values of the code are modelled exactly,    *)
(* as integers where the code only adds and multiplies integer data and    *)
(* as normalised fractions <<numerator, denominator>> where it divides     *)
(* (the linear solve, the weight normalisation, the /2 of the quadratic    *)
(* form).  Rounding is not modelled.                                       *)
(*                                                                         *)
(* Arrays are functions on 0..n-1, as in the code; the arguments of the    *)
(* determinant and of solve are 1-based sequences of rows.                 *)
(***************************************************************************)
EXTENDS Integers, Sequences, FiniteSets

VARIABLES
    pc,         \* "ready" before the call, "done" after it
    bus,        \* makePTDF argument: bus[k] = [BUS_I, BUS_TYPE]
    branch,     \* makePTDF argument: branch[i] = [F_BUS, T_BUS, b]
    slack,      \* makePTDF argument: [kind, s, w, m]
    ptdf,       \* makePTDF frame at exit: outcome, slack_bus, noref, noslack, H
    stderr,     \* what has been written to sys.stderr
    om,         \* opf_costfcn argument: baseMVA, ng, gencost, cost params, index map
    x,          \* opf_costfcn argument: the decision vector
    cost        \* opf_costfcn frame at exit: f, df, d2f and the locals

vars == <<pc, bus, branch, slack, ptdf, stderr, om, x, cost>>

----------------------------------------------------------------------------
\* Bounds of the model.

\* largest number of buses of a network
MaxBus == 3
\* largest number of branches of a network
MaxBranch == 3

----------------------------------------------------------------------------
\* Exact arithmetic.

Abs(a) == IF a < 0 THEN -a ELSE a

RECURSIVE Gcd(_, _)
Gcd(a, b) == IF b = 0 THEN a ELSE Gcd(b, a % b)

\* the fraction n/d in lowest terms with a positive denominator (d # 0)
Rat(n, d) ==
    LET g == Gcd(Abs(n), Abs(d))
        s == IF d < 0 THEN -1 ELSE 1
    IN  <<(s * n) \div g, (s * d) \div g>>

RZero == <<0, 1>>
RInt(n) == <<n, 1>>
RAdd(p, q) == Rat(p[1] * q[2] + q[1] * p[2], p[2] * q[2])
RSub(p, q) == Rat(p[1] * q[2] - q[1] * p[2], p[2] * q[2])
RMul(p, q) == Rat(p[1] * q[1], p[2] * q[2])

RECURSIVE SeqSum(_)
SeqSum(s) == IF s = <<>> THEN 0 ELSE Head(s) + SeqSum(Tail(s))

RECURSIVE RSeqSum(_)
RSeqSum(s) == IF s = <<>> THEN RZero ELSE RAdd(Head(s), RSeqSum(Tail(s)))

\* arange(lo, hi) as a 1-based sequence
Arange(lo, hi) == [i \in 1..(hi - lo) |-> lo + i - 1]

\* find(cond): the indices of 0..n-1 in S, ascending, as a 1-based sequence
RECURSIVE FindFrom(_, _, _)
FindFrom(S, k, n) ==
    IF k >= n THEN <<>>
    ELSE IF k \in S THEN <<k>> \o FindFrom(S, k + 1, n)
    ELSE FindFrom(S, k + 1, n)

Find(S, n) == FindFrom(S, 0, n)

\* the set of the elements of a sequence
Range(s) == {s[i] : i \in DOMAIN s}

----------------------------------------------------------------------------
\* numpy.linalg: determinant and solve on 1-based square matrices.

Minor(A, i, j) ==
    [r \in 1..(Len(A) - 1) |->
        [c \in 1..(Len(A) - 1) |->
            A[IF r < i THEN r ELSE r + 1][IF c < j THEN c ELSE c + 1]]]

Sign(k) == IF k % 2 = 0 THEN 1 ELSE -1

RECURSIVE Det(_)
Det(A) ==
    IF Len(A) = 0 THEN 1
    ELSE IF Len(A) = 1 THEN A[1][1]
    ELSE SeqSum([j \in 1..Len(A) |-> Sign(1 + j) * A[1][j] * Det(Minor(A, 1, j))])

Transpose(A, ncols) ==
    [c \in 1..ncols |-> [r \in 1..Len(A) |-> A[r][c]]]

\* solve(a, b): the matrix X with a * X = b, a square and non-singular, b with
\* nrhs columns; entries are fractions.  X = adj(a) * b / det(a).
Solve(a, b, nrhs) ==
    LET n == Len(a)
        adj == [k \in 1..n |-> [c \in 1..n |-> Sign(k + c) * Det(Minor(a, c, k))]]
    IN  CHOOSE X \in {[k \in 1..n |->
                         [i \in 1..nrhs |->
                             Rat(SeqSum([c \in 1..n |-> ad[k][c] * b[c][i]]), d)]] :
                        ad \in {adj}, d \in {Det(a)}} : TRUE

----------------------------------------------------------------------------
\* idx_bus and makeBdc.

PQ == 1
REF == 3

\* Bf: branch i carries b*(angle[F_BUS] - angle[T_BUS])
MakeBf(nb, br) ==
    [i \in DOMAIN br |->
        [j \in 0..(nb - 1) |->
            (IF j = br[i].F_BUS THEN br[i].b ELSE 0)
          - (IF j = br[i].T_BUS THEN br[i].b ELSE 0)]]

\* Bbus = Cft' * Bf, Cft the branch-bus incidence matrix
MakeBbus(nb, br) ==
    LET Bf == MakeBf(nb, br)
        Cft(i, j) == (IF j = br[i].F_BUS THEN 1 ELSE 0)
                   - (IF j = br[i].T_BUS THEN 1 ELSE 0)
    IN  [j \in 0..(nb - 1) |->
            [k \in 0..(nb - 1) |->
                SeqSum([i \in 1..Len(br) |-> Cft(i, j) * Bf[i][k]])]]

----------------------------------------------------------------------------
\* makePTDF.

Buses(nb) == 0..(nb - 1)

\* the slack argument
NoSlack == [kind |-> "none", s |-> 0, w |-> <<>>, m |-> <<>>]
ScalarSlack(s) == [kind |-> "scalar", s |-> s, w |-> <<>>, m |-> <<>>]
VectorSlack(w) == [kind |-> "vector", s |-> 0, w |-> w, m |-> <<>>]
MatrixSlack(m) == [kind |-> "matrix", s |-> 0, w |-> <<>>, m |-> m]

\* slack = find(bus[:, BUS_TYPE] == REF): the reference buses, ascending.
\* The bus tables drawn below have a reference bus (slack[0] of an empty result
\* raises IndexError).
RefBuses(b_us, nb) == Find({k \in Buses(nb) : b_us[k].BUS_TYPE = REF}, nb)

\* isscalar(slack) ? slack : 0
SlackBus(sl) == IF sl.kind = "scalar" THEN sl.s ELSE 0

\* (variant: the angle reference follows the slack bus)
NorefFollowsSlack(nb, slack_bus) == Find(Buses(nb) \ {slack_bus}, nb)

\* noref = arange(1, nb), whatever the slack bus
Noref(nb, slack_bus) == Arange(1, nb)

\* (variant: the slack columns are those of noref)
NoslackAsNoref(nb, slack_bus) == Arange(1, nb)

\* noslack = find(arange(nb) != slack_bus)
Noslack(nb, slack_bus) == Find(Buses(nb) \ {slack_bus}, nb)

\* (variant: the check compares with 1-based bus numbers)
NumberingDiagnosticFromOne(b_us, nb) ==
    IF \E k \in Buses(nb) : b_us[k].BUS_I # k + 1
    THEN <<"makePTDF: buses must be numbered consecutively">>
    ELSE <<>>

\* what the numbering check writes to stderr
NumberingDiagnostic(b_us, nb) ==
    IF \E k \in Buses(nb) : b_us[k].BUS_I # k
    THEN <<"makePTDF: buses must be numbered consecutively">>
    ELSE <<>>

\* Bbus[ix_(noslack, noref)].T, 1-based
ReducedBbusT(Bbus, noslack, noref) ==
    [c \in 1..Len(noref) |-> [r \in 1..Len(noslack) |-> Bbus[noslack[r]][noref[c]]]]

\* Bf[:, noref].T, 1-based
ReducedBfT(Bf, noref) ==
    [c \in 1..Len(noref) |-> [i \in 1..Len(Bf) |-> Bf[i][noref[c]]]]

\* H = zeros((nbr, nb)); H[:, noslack] = X, X the nbr x (nb-1) solution
ScatterColumns(X, noslack, nbr, nb) ==
    [i \in 1..nbr |->
        [j \in Buses(nb) |->
            IF j \in Range(noslack)
            THEN X[i][CHOOSE p \in DOMAIN noslack : noslack[p] = j]
            ELSE RZero]]

\* slack / sum(slack)
Normalize(w, nb) ==
    [j \in Buses(nb) |-> Rat(w[j], SeqSum([k \in 1..nb |-> w[k - 1]]))]

\* (variant: the weights are used as given, not normalised)
DistributeVectorRaw(H, w, nbr, nb) ==
    LET dot == [i \in 1..nbr |->
                   RSeqSum([k \in 1..nb |-> RMul(H[i][k - 1], RInt(w[k - 1]))])]
    IN  CHOOSE r \in {[i \in 1..nbr |-> [k \in Buses(nb) |-> RSub(H[i][k], v[i])]] :
                        v \in {dot}} : TRUE

\* slack = slack / sum(slack); v = dot(H, slack);
\* for k in range(nb): H[:, k] = H[:, k] - v
DistributeVector(H, w, nbr, nb) ==
    LET wn == Normalize(w, nb)
        dot == [i \in 1..nbr |->
                   RSeqSum([k \in 1..nb |-> RMul(H[i][k - 1], wn[k - 1])])]
    IN  CHOOSE r \in {[i \in 1..nbr |-> [k \in Buses(nb) |-> RSub(H[i][k], v[i])]] :
                        v \in {dot}} : TRUE

\* H = dot(H, slack)
DistributeMatrix(H, m, nbr, nb) ==
    [i \in 1..nbr |->
        [k \in Buses(nb) |->
            RSeqSum([j \in 1..nb |-> RMul(H[i][j - 1], RInt(m[j - 1][k]))])]]

\* lines 76-88: distribute slack, if requested
Distribute(H, sl, nbr, nb) ==
    CASE sl.kind = "scalar" -> H
      [] sl.kind = "vector" -> DistributeVector(H, sl.w, nbr, nb)
      [] sl.kind = "matrix" -> DistributeMatrix(H, sl.m, nbr, nb)

Raised(what, slack_bus, noref, noslack) ==
    [outcome |-> what, slack_bus |-> slack_bus, noref |-> noref,
     noslack |-> noslack, H |-> <<>>]

\* The frame of makePTDF(baseMVA, bus, branch, slack) when it returns or raises,
\* and what it wrote to stderr.  baseMVA is passed on to makeBdc only, whose DC
\* matrices do not depend on it.
makePTDF(b_us, br, sl0) ==
    LET nb == Cardinality(DOMAIN b_us)
        nbr == Len(br)
        refs == RefBuses(b_us, nb)
    IN  LET sl == IF sl0.kind = "none" THEN ScalarSlack(refs[1]) ELSE sl0
            slack_bus == SlackBus(sl)
            noref == Noref(nb, slack_bus)
            noslack == Noslack(nb, slack_bus)
            err == NumberingDiagnostic(b_us, nb)
            Bbus == MakeBbus(nb, br)
            Bf == MakeBf(nb, br)
            a == ReducedBbusT(Bbus, noslack, noref)
            b == ReducedBfT(Bf, noref)
        IN  IF Det(a) = 0
            THEN [frame |-> Raised("LinAlgError", slack_bus, noref, noslack),
                  err |-> err]
            ELSE
            LET X == Transpose(Solve(a, b, nbr), nbr)
                H1 == ScatterColumns(X, noslack, nbr, nb)
                \* (h ranges over the one value of H1, which is so computed once)
                H == CHOOSE r \in {Distribute(h, sl, nbr, nb) : h \in {H1}} : TRUE
            IN  [frame |-> [outcome |-> "returned", slack_bus |-> slack_bus,
                            noref |-> noref, noslack |-> noslack, H |-> H],
                 err |-> err]

----------------------------------------------------------------------------
\* The arguments the PTDF specification draws.

Weights == {0, 1, 2}

\* branch rows: a line between every two buses, entered from its lower to its
\* higher numbered bus, with susceptance T_BUS - F_BUS
BranchRows(nb) ==
    {[F_BUS |-> p[1], T_BUS |-> p[2], b |-> p[2] - p[1]] :
        p \in {q \in Buses(nb) \X Buses(nb) : q[1] < q[2]}}

\* networks: up to MaxBranch branches (parallel lines included), listed in the
\* order of their end buses
Networks(nb) ==
    UNION {{br \in [1..n -> BranchRows(nb)] :
                \A i \in 1..(n - 1) :
                    br[i].F_BUS * nb + br[i].T_BUS <= br[i + 1].F_BUS * nb + br[i + 1].T_BUS} :
           n \in 0..MaxBranch}

\* bus numberings: consecutive from 0, consecutive from 1, and the first two
\* buses exchanged
Consecutive(nb) == [k \in Buses(nb) |-> k]

Numberings(nb) ==
    {Consecutive(nb), [k \in Buses(nb) |-> k + 1],
     [k \in Buses(nb) |-> IF k = 0 THEN 1 ELSE IF k = 1 THEN 0 ELSE k]}

\* bus types with bus 0 the reference bus
RefFirst(nb) == [k \in Buses(nb) |-> IF k = 0 THEN REF ELSE PQ]

BusTable(ids, ty, nb) ==
    [k \in Buses(nb) |-> [BUS_I |-> ids[k], BUS_TYPE |-> ty[k]]]

\* weight vectors with a non-zero sum
WeightVectors(nb) ==
    {w \in [Buses(nb) -> Weights] : SeqSum([k \in 1..nb |-> w[k - 1]]) # 0}

\* distribution matrices: the identity with column k replaced by the unit
\* vector of bus j
SlackMatrices(nb) ==
    {[r \in Buses(nb) |-> [c \in Buses(nb) |->
            IF c = k THEN (IF r = j THEN 1 ELSE 0) ELSE (IF r = c THEN 1 ELSE 0)]] :
        j \in Buses(nb), k \in Buses(nb)}

\* the (bus, slack) pairs of the calls: the default slack with every placement
\* of reference buses and with every numbering, a scalar slack with every
\* numbering, weight vectors and distribution matrices
Calls(nb) ==
    {<<BusTable(Consecutive(nb), ty, nb), NoSlack>> :
        ty \in {t \in [Buses(nb) -> {PQ, REF}] : \E k \in Buses(nb) : t[k] = REF}}
    \cup {<<BusTable(ids, RefFirst(nb), nb), NoSlack>> : ids \in Numberings(nb)}
    \cup {<<BusTable(ids, RefFirst(nb), nb), ScalarSlack(s)>> :
        ids \in Numberings(nb), s \in Buses(nb)}
    \cup {<<BusTable(Consecutive(nb), RefFirst(nb), nb), VectorSlack(w)>> :
        w \in WeightVectors(nb)}
    \cup {<<BusTable(Consecutive(nb), RefFirst(nb), nb), MatrixSlack(m)>> :
        m \in SlackMatrices(nb)}

NoCall == [outcome |-> "none"]

InitPTDF ==
    /\ pc = "ready"
    /\ \E nb \in 2..MaxBus :
        /\ branch \in Networks(nb)
        /\ \E c \in Calls(nb) : bus = c[1] /\ slack = c[2]
    /\ ptdf = NoCall
    /\ stderr = <<>>
    /\ om = NoCall
    /\ x = <<>>
    /\ cost = NoCall

\* H = makePTDF(baseMVA, bus, branch, slack)
MakePTDF ==
    /\ pc = "ready"
    /\ LET r == makePTDF(bus, branch, slack)
       IN  /\ ptdf' = r.frame
           /\ stderr' = stderr \o r.err
    /\ pc' = "done"
    /\ UNCHANGED <<bus, branch, slack, om, x, cost>>

NextPTDF == MakePTDF

SpecPTDF == InitPTDF /\ [][NextPTDF]_vars

----------------------------------------------------------------------------
\* idx_cost, polycost and totcost.

PW_LINEAR == 1
POLYNOMIAL == 2

\* the value at xv of the polynomial with coefficients c, highest order first
RECURSIVE Horner(_, _, _)
Horner(c, xv, acc) ==
    IF c = <<>> THEN acc ELSE Horner(Tail(c), xv, acc * xv + Head(c))

\* the coefficients of the derivative
Deriv(c) == [k \in 1..(Len(c) - 1) |-> c[k] * (Len(c) - k)]

\* polycost(gencost, Pg, der) for one row: the polynomial cost (der = 0) or its
\* first or second derivative at xv
polycost(row, xv, der) ==
    CASE der = 0 -> Horner(row.COST, xv, 0)
      [] der = 1 -> Horner(Deriv(row.COST), xv, 0)
      [] der = 2 -> Horner(Deriv(Deriv(row.COST)), xv, 0)

\* totcost(gencost, Pg) for one polynomial row
totcost(row, xv) == polycost(row, xv, 0)

----------------------------------------------------------------------------
\* opf_costfcn.

\* the sum of t[k] over k in lo..hi-1
SumOver(t, lo, hi) == SeqSum([k \in 1..(hi - lo) |-> t[lo + k - 1]])

\* any(a) for an array of numbers a on 0..n-1: some element is non-zero
AnyNonzero(a, n) == \E k \in 0..(n - 1) : a[k] # 0

\* ipol = nonzero(gencost[:, MODEL] == POLYNOMIAL): the polynomial rows
Ipol(gencost) == {r \in DOMAIN gencost : gencost[r].MODEL = POLYNOMIAL}

\* any(ipol): any() looks at the indices held by ipol, so it is true when some
\* polynomial row has a non-zero index
AnyIpol(ipol) == \E r \in ipol : r # 0

\* xx = r_[Pg, Qg] * baseMVA
Xx(Pg, Qg, ng, baseMVA) ==
    [k \in 0..(2 * ng - 1) |-> (IF k < ng THEN Pg[k] ELSE Qg[k - ng]) * baseMVA]

\* lines 67-70: f = sum(totcost(gencost[ipol, :], xx[ipol])) if any(ipol) else 0
PolyCost(gencost, ipol, xx) ==
    IF AnyIpol(ipol)
    THEN SeqSum([k \in 1..Cardinality(DOMAIN gencost) |->
                    IF (k - 1) \in ipol THEN totcost(gencost[k - 1], xx[k - 1]) ELSE 0])
    ELSE 0

\* (variant: the ones sit one offset too low)
CcostOneLow(ny, vv, nxyz) ==
    [k \in 0..(nxyz - 1) |->
        IF ny > 0 /\ k \in (vv.i1.y - 1)..(vv.iN.y - 2) THEN 1 ELSE 0]

\* lines 73-80: ccost, a row of ones at the offsets of y, zeros if ny = 0
Ccost(ny, vv, nxyz) ==
    [k \in 0..(nxyz - 1) |->
        IF ny > 0 /\ k \in vv.i1.y..(vv.iN.y - 1) THEN 1 ELSE 0]

\* any(N): some entry of N is non-zero
AnyN(N, nw, nxyz) == \E i \in 0..(nw - 1) : AnyNonzero(N[i], nxyz)

\* r = N * x - rh
Residual(N, xv, rh, nw, nxyz) ==
    [i \in 0..(nw - 1) |-> SumOver([k \in 0..(nxyz - 1) |-> N[i][k] * xv[k]], 0, nxyz) - rh[i]]

\* 0 & k
BitAndZero(k) == 0

\* iLT = nonzero(r < -kk)
ILT(r, kk, nw) == {i \in 0..(nw - 1) : r[i] < -kk[i]}

\* iEQ = nonzero(r == 0 & kk == 0): & binds tighter than ==, so this is the
\* chained comparison r == (0 & kk) == 0, that is r == (0 & kk) and (0 & kk) == 0
IEQ(r, kk, nw) ==
    {i \in 0..(nw - 1) : r[i] = BitAndZero(kk[i]) /\ BitAndZero(kk[i]) = 0}

\* iGT = nonzero(r > kk)
IGT(r, kk, nw) == {i \in 0..(nw - 1) : r[i] > kk[i]}

\* kbar: the diagonal with 1 on iLT, 0 on iEQ and -1 on iGT, times kk
Kbar(iLT, iEQ, iGT, kk, nw) ==
    [i \in 0..(nw - 1) |->
        ((IF i \in iLT THEN 1 ELSE 0) - (IF i \in iGT THEN 1 ELSE 0)) * kk[i]]

\* M: the diagonal with mm on the rows of iND = r_[iLT, iEQ, iGT]
Mdiag(iND, mm, nw) == [i \in 0..(nw - 1) |-> IF i \in iND THEN mm[i] ELSE 0]

\* w = M * (LL + QQ * diagrr) * rr
Wvec(M, dd, rr, nw) ==
    [i \in 0..(nw - 1) |->
        M[i] * ((IF dd[i] = 1 THEN 1 ELSE 0) + (IF dd[i] = 2 THEN 1 ELSE 0) * rr[i]) * rr[i]]

\* HwC = H * w + Cw
HwCvec(H, w, Cw, nw) ==
    [i \in 0..(nw - 1) |-> SumOver([j \in 0..(nw - 1) |-> H[i][j] * w[j]], 0, nw) + Cw[i]]

\* (variant: the quadratic rows lose the factor rr)
AAConstant(N, M, dd, rr, nw, nxyz) ==
    [k \in 0..(nxyz - 1) |->
        [i \in 0..(nw - 1) |->
            N[i][k] * M[i] * ((IF dd[i] = 1 THEN 1 ELSE 0) + 2 * (IF dd[i] = 2 THEN 1 ELSE 0))]]

\* AA = N.T * M * (LL + 2 * QQ * diagrr)
AAmat(N, M, dd, rr, nw, nxyz) ==
    [k \in 0..(nxyz - 1) |->
        [i \in 0..(nw - 1) |->
            N[i][k] * M[i]
                * ((IF dd[i] = 1 THEN 1 ELSE 0) + 2 * (IF dd[i] = 2 THEN 1 ELSE 0) * rr[i])]]

\* (w.T * H * w) / 2 + Cw.T * w
GenCost(w, H, Cw, nw) ==
    RAdd(Rat(SumOver([i \in 0..(nw - 1) |->
                        w[i] * SumOver([j \in 0..(nw - 1) |-> H[i][j] * w[j]], 0, nw)], 0, nw), 2),
         RInt(SumOver([i \in 0..(nw - 1) |-> Cw[i] * w[i]], 0, nw)))

\* AA * HwC
GenGrad(AA, HwC, nw, nxyz) ==
    [k \in 0..(nxyz - 1) |-> SumOver([i \in 0..(nw - 1) |-> AA[k][i] * HwC[i]], 0, nw)]

\* AA * H * AA.T + 2 * N.T * M * QQ * diag(HwC) * N
GenHess(AA, H, N, M, dd, HwC, nw, nxyz) ==
    [k \in 0..(nxyz - 1) |->
        [l \in 0..(nxyz - 1) |->
            SumOver([i \in 0..(nw - 1) |->
                AA[k][i] * SumOver([j \in 0..(nw - 1) |-> H[i][j] * AA[l][j]], 0, nw)
              + 2 * N[i][k] * M[i] * (IF dd[i] = 2 THEN 1 ELSE 0) * HwC[i] * N[i][l]],
                0, nw)]]

\* lines 113-117: the polynomial part of df
PolyGrad(gencost, ipol, xx, vv, ng, nxyz, baseMVA) ==
    CHOOSE df \in
        {[k \in 0..(nxyz - 1) |->
            IF k \in vv.i1.Pg..(vv.iN.Pg - 1) THEN df_dPgQg[k - vv.i1.Pg]
            ELSE IF k \in vv.i1.Qg..(vv.iN.Qg - 1) THEN df_dPgQg[ng + k - vv.i1.Qg]
            ELSE 0] :
         df_dPgQg \in {[k \in 0..(2 * ng - 1) |->
                        IF k \in ipol THEN baseMVA * polycost(gencost[k], xx[k], 1)
                        ELSE 0]}} : TRUE

\* qcost = gencost[ng + 1:2 * ng, :] if gencost.shape[0] > ng else array([]),
\* as a function on 0..len(qcost)-1
Qcost(gencost, ng) ==
    IF Cardinality(DOMAIN gencost) > ng
    THEN [j \in 0..(ng - 2) |-> gencost[ng + 1 + j]]
    ELSE <<>>

\* any(qcost): qcost holds a non-zero number (every row holds its model tag)
AnyQcost(qcost) == \E j \in DOMAIN qcost : qcost[j].MODEL # 0

\* lines 148-165: the polynomial part of d2f, a diagonal
PolyHess(gencost, Pg, Qg, vv, ng, nxyz, baseMVA) ==
    LET pcost == [i \in 0..(ng - 1) |-> gencost[i]]
        qcost == Qcost(gencost, ng)
        d2f_dPg2 == [i \in 0..(ng - 1) |->
                        IF pcost[i].MODEL = POLYNOMIAL
                        THEN baseMVA * baseMVA * polycost(pcost[i], Pg[i] * baseMVA, 2)
                        ELSE 0]
        d2f_dQg2 == [i \in 0..(ng - 1) |->
                        IF AnyQcost(qcost) /\ i \in DOMAIN qcost
                            /\ qcost[i].MODEL = POLYNOMIAL
                        THEN baseMVA * baseMVA * polycost(qcost[i], Qg[i] * baseMVA, 2)
                        ELSE 0]
    IN  [k \in 0..(nxyz - 1) |->
            [l \in 0..(nxyz - 1) |->
                IF k # l THEN 0
                ELSE IF k \in vv.i1.Pg..(vv.iN.Pg - 1) THEN d2f_dPg2[k - vv.i1.Pg]
                ELSE IF k \in vv.i1.Qg..(vv.iN.Qg - 1) THEN d2f_dQg2[k - vv.i1.Qg]
                ELSE 0]]

\* lines 99-103 and 124-125: M, w, HwC and AA, from the zones and rr
GenWeights(cp, r, iLT, iEQ, iGT, rr, M, nw, nxyz) ==
    CHOOSE g \in
        {[r |-> r, iLT |-> iLT, iEQ |-> iEQ, iGT |-> iGT, rr |-> rr, M |-> M, w |-> w,
          HwC |-> HwCvec(cp.H, w, cp.Cw, nw),
          AA |-> AAmat(cp.N, M, cp.dd, rr, nw, nxyz)] :
         w \in {Wvec(M, cp.dd, rr, nw)}} : TRUE

\* lines 86-98: the zones of r, the shifted rr = r + kbar and the scale M
GenShift(cp, r, nw, nxyz) ==
    LET iLT == ILT(r, cp.kk, nw)
        iEQ == IEQ(r, cp.kk, nw)
        iGT == IGT(r, cp.kk, nw)
        kbar == Kbar(iLT, iEQ, iGT, cp.kk, nw)
    IN  CHOOSE g \in
            {GenWeights(cp, r, iLT, iEQ, iGT, rr, M, nw, nxyz) :
             rr \in {[i \in 0..(nw - 1) |-> r[i] + kbar[i]]},
             M \in {Mdiag(iLT \cup iEQ \cup iGT, cp.mm, nw)}} : TRUE

\* lines 83-105 and 123-126: the locals of the generalized cost term
\* (every local is computed once: it is the one element of the set its name
\* ranges over)
GenTerm(cp, xv, nw, nxyz) ==
    CHOOSE g \in {GenShift(cp, r, nw, nxyz) :
                    r \in {Residual(cp.N, xv, cp.rh, nw, nxyz)}} : TRUE

\* lines 105, 126, 169-170: f, df and d2f with the generalized cost term g added
WithGenTerm(f1, df1, d2f1, ipol, ccost, g, cp, nw, nxyz) ==
    CHOOSE fr \in
        {[f |-> RAdd(RInt(f1), GenCost(g.w, cp.H, cp.Cw, nw)),
          df |-> [k \in 0..(nxyz - 1) |-> df1[k] + gg[k]],
          d2f |-> [k \in 0..(nxyz - 1) |-> [l \in 0..(nxyz - 1) |-> d2f1[k][l] + gh[k][l]]],
          ipol |-> ipol, ccost |-> ccost, anyN |-> TRUE, gen |-> g] :
         gg \in {GenGrad(g.AA, g.HwC, nw, nxyz)},
         gh \in {GenHess(g.AA, cp.H, cp.N, g.M, cp.dd, g.HwC, nw, nxyz)}} : TRUE

\* The frame of opf_costfcn(x, om) when it returns: f, df, d2f and the locals
\* the properties below read.
opf_costfcn(xv, m) ==
    LET baseMVA == m.baseMVA
        gencost == m.gencost
        cp == m.cp
        vv == m.vv
        ng == m.ng
        ny == m.ny
        nxyz == Cardinality(DOMAIN xv)
        nw == Cardinality(DOMAIN cp.N)
        Pg == [i \in 0..(ng - 1) |-> xv[vv.i1.Pg + i]]
        Qg == [i \in 0..(ng - 1) |-> xv[vv.i1.Qg + i]]
        ipol == Ipol(gencost)
        xx == Xx(Pg, Qg, ng, baseMVA)
        ccost == Ccost(ny, vv, nxyz)
        f1 == PolyCost(gencost, ipol, xx)
                + SumOver([k \in 0..(nxyz - 1) |-> ccost[k] * xv[k]], 0, nxyz)
        df1 == [k \in 0..(nxyz - 1) |->
                    PolyGrad(gencost, ipol, xx, vv, ng, nxyz, baseMVA)[k] + ccost[k]]
        d2f1 == PolyHess(gencost, Pg, Qg, vv, ng, nxyz, baseMVA)
    IN  IF AnyN(cp.N, nw, nxyz)
        THEN CHOOSE fr \in
                {WithGenTerm(f1, a, b, ipol, ccost, g, cp, nw, nxyz) :
                 a \in {df1}, b \in {d2f1}, g \in {GenTerm(cp, xv, nw, nxyz)}} : TRUE
        ELSE [f |-> RInt(f1), df |-> df1, d2f |-> d2f1,
              ipol |-> ipol, ccost |-> ccost, anyN |-> FALSE, gen |-> <<>>]

----------------------------------------------------------------------------
\* The arguments the cost specification draws.

\* largest number of generators
MaxGen == 2
\* largest number of rows of the generalized cost term
MaxW == 2

BaseMVAs == {2}

\* the cost of row r: a quadratic on the even rows, a cubic on the odd ones,
\* no two rows alike
Coeffs(r) == IF r % 2 = 0 THEN <<r + 1, r + 2, r + 3>> ELSE <<1, r + 1, r + 2, r + 3>>

\* gencost tables: ng rows (active costs) or 2*ng rows (reactive costs too),
\* every row polynomial or piecewise linear
Gencosts(ng) ==
    UNION {{[r \in 0..(n - 1) |-> [MODEL |-> tags[r], COST |-> Coeffs(r)]] :
                tags \in [0..(n - 1) -> {PW_LINEAR, POLYNOMIAL}]} : n \in {ng, 2 * ng}}

\* one helper variable for every piecewise linear row
NumPwl(gencost) == Cardinality({r \in DOMAIN gencost : gencost[r].MODEL = PW_LINEAR})

\* x = [Va, Pg (ng), Qg (ng), y (ny)]
IndexMap(ng, ny) ==
    [i1 |-> [Pg |-> 1, Qg |-> 1 + ng, y |-> 1 + 2 * ng],
     iN |-> [Pg |-> 1 + ng, Qg |-> 1 + 2 * ng, y |-> 1 + 2 * ng + ny]]

\* no generalized cost: no rows, or one row with N zero
EmptyCp ==
    [N |-> <<>>, Cw |-> <<>>, H |-> <<>>, dd |-> <<>>, rh |-> <<>>, kk |-> <<>>, mm |-> <<>>]

ZeroCp(nxyz) ==
    [N |-> [i \in {0} |-> [k \in 0..(nxyz - 1) |-> 0]], Cw |-> [i \in {0} |-> 1],
     H |-> [i \in {0} |-> [j \in {0} |-> 1]], dd |-> [i \in {0} |-> 1],
     rh |-> [i \in {0} |-> 0], kk |-> [i \in {0} |-> 0], mm |-> [i \in {0} |-> 1]]

Model(baseMVA, ng, gencost, ny, cp) ==
    [baseMVA |-> baseMVA, ng |-> ng, gencost |-> gencost, ny |-> ny,
     vv |-> IndexMap(ng, ny), cp |-> cp]

\* polynomial and piecewise linear costs only: every tagging of the rows, Pg and
\* Qg in {0, 1}, the helper variables all 0 or y[j] = j + 1
PlainCalls(ng) ==
    {<<[k \in 0..(2 * ng + NumPwl(gc)) |->
            IF k = 0 THEN 0
            ELSE IF k <= 2 * ng THEN pq[k]
            ELSE yy * (k - 2 * ng)],
       Model(b, ng, gc, NumPwl(gc),
             IF z = 0 THEN EmptyCp ELSE ZeroCp(1 + 2 * ng + NumPwl(gc)))>> :
        b \in BaseMVAs, gc \in Gencosts(ng), pq \in [1..(2 * ng) -> {0, 1}],
        yy \in {0, 1}, z \in {0, 1}}

\* generalized costs: one generator with a piecewise linear active cost and a
\* polynomial reactive cost, x = [Va, Pg, Qg, y]; row i of N reads Pg, Qg or y
\* in turn, mm[i] = i + 2, every dead zone half-width in {0, 1} and every shape
GenCps ==
    {[N |-> [i \in 0..(nw - 1) |-> [k \in 0..3 |-> IF k = 1 + (i % 3) THEN 1 ELSE 0]],
      Cw |-> [i \in 0..(nw - 1) |-> c * (i + 1)],
      H |-> [i \in 0..(nw - 1) |-> [j \in 0..(nw - 1) |-> h * (IF i = j THEN 2 ELSE 1)]],
      dd |-> dd, rh |-> [i \in 0..(nw - 1) |-> rh], kk |-> kk,
      mm |-> [i \in 0..(nw - 1) |-> i + 2]] :
        nw \in 1..MaxW, c \in {0, 1}, h \in {0, 1}, rh \in {0, 1},
        dd \in UNION {[0..(n - 1) -> {1, 2}] : n \in 1..MaxW},
        kk \in UNION {[0..(n - 1) -> {0, 1}] : n \in 1..MaxW}}

GenCalls ==
    {<<[k \in 0..3 |-> IF k = 0 THEN 0 ELSE IF k = 3 THEN y ELSE pq[k]],
       Model(b, 1,
             [r \in 0..1 |-> [MODEL |-> IF r = 0 THEN PW_LINEAR ELSE POLYNOMIAL,
                              COST |-> Coeffs(r)]],
             1, cp)>> :
        b \in BaseMVAs, pq \in [1..2 -> -2..2], y \in {0, 1},
        cp \in {c \in GenCps : DOMAIN c.dd = DOMAIN c.N /\ DOMAIN c.kk = DOMAIN c.N}}

InitCost ==
    /\ pc = "ready"
    /\ \E c \in GenCalls \cup UNION {PlainCalls(ng) : ng \in 1..MaxGen} :
        x = c[1] /\ om = c[2]
    /\ cost = NoCall
    /\ bus = <<>>
    /\ branch = <<>>
    /\ slack = NoSlack
    /\ ptdf = NoCall
    /\ stderr = <<>>

\* f, df, d2f = opf_costfcn(x, om)
OpfCostfcn ==
    /\ pc = "ready"
    /\ cost' = opf_costfcn(x, om)
    /\ pc' = "done"
    /\ UNCHANGED <<bus, branch, slack, ptdf, stderr, om, x>>

NextCost == OpfCostfcn

SpecCost == InitCost /\ [][NextCost]_vars

----------------------------------------------------------------------------
\* Properties of makePTDF.

nbOf == Cardinality(DOMAIN bus)
Returned == pc = "done" /\ ptdf.outcome = "returned"

\* the single slack bus of the call: the scalar given, or by default the first
\* bus whose type is REF
SingleSlack ==
    IF slack.kind = "scalar" THEN slack.s
    ELSE CHOOSE k \in Buses(nbOf) :
            /\ bus[k].BUS_TYPE = REF
            /\ \A j \in Buses(nbOf) : bus[j].BUS_TYPE = REF => k <= j

\* C1: with a single slack bus s (a scalar, or by default the reference bus),
\* column s of the matrix returned is zero in every branch row.
C1_SlackColumnZero ==
    (Returned /\ slack.kind \in {"none", "scalar"}) =>
        \A i \in DOMAIN ptdf.H : ptdf.H[i][SingleSlack] = RZero

C1_Witness ==
    /\ Returned
    /\ slack.kind = "none"
    /\ nbOf = 3
    /\ SingleSlack = 2
    /\ \E i \in DOMAIN ptdf.H : ptdf.H[i][0] # RZero /\ ptdf.H[i][1] # RZero

\* the matrix product A * B of an (nbr x nb) and an (nb x nb) matrix of fractions
RMatMul(A, B, nb) ==
    [i \in DOMAIN A |->
        [k \in Buses(nb) |-> RSeqSum([j \in 1..nb |-> RMul(A[i][j - 1], B[j - 1][k])])]]

SumOfWeights == SeqSum([k \in 1..nbOf |-> slack.w[k - 1]])

\* I - w' * 1^T with w' = w / sum(w)
SlackProjector ==
    [j \in Buses(nbOf) |->
        [k \in Buses(nbOf) |->
            RSub(RInt(IF j = k THEN 1 ELSE 0), Rat(slack.w[j], SumOfWeights))]]

\* the PTDF of the same network with bus 0 as the single slack bus
H_0 == makePTDF(bus, branch, ScalarSlack(0)).frame.H

\* C2: for a weight vector w with non-zero sum the matrix returned is
\* H_0 * (I - w' * 1^T), w' = w / sum(w), H_0 the PTDF for the single slack bus 0.
C2_WeightedSlack ==
    (Returned /\ slack.kind = "vector") =>
        ptdf.H = RMatMul(H_0, SlackProjector, nbOf)

C2_Witness ==
    /\ Returned
    /\ slack.kind = "vector"
    /\ nbOf = 3
    /\ slack.w[0] = 1 /\ slack.w[1] = 2 /\ slack.w[2] = 0
    /\ Len(branch) = 3
    /\ \E i \in DOMAIN ptdf.H : ptdf.H[i][0] \notin {RZero, H_0[i][0]}

Misnumbered == \E k \in Buses(nbOf) : bus[k].BUS_I # k

Renumbered == [k \in Buses(nbOf) |-> [bus[k] EXCEPT !.BUS_I = k]]

\* C7: the diagnostic is written exactly when some bus identifier differs from
\* its position; the call then goes on as it does for the consecutively numbered
\* table, and a matrix it returns is nbr x nb.
C7_NumberingDiagnostic ==
    pc = "done" =>
        /\ Misnumbered <=> stderr = <<"makePTDF: buses must be numbered consecutively">>
        /\ ~Misnumbered <=> stderr = <<>>
        /\ ptdf = makePTDF(Renumbered, branch, slack).frame
        /\ ptdf.outcome = "returned" =>
            /\ DOMAIN ptdf.H = 1..Len(branch)
            /\ \A i \in DOMAIN ptdf.H : DOMAIN ptdf.H[i] = Buses(nbOf)

C7_Witness ==
    /\ Returned
    /\ Misnumbered
    /\ nbOf = 3
    /\ bus[0].BUS_I = 1 /\ bus[1].BUS_I = 0
    /\ stderr # <<>>
    /\ Len(branch) = 3

AllBut(k) == Find(Buses(nbOf) \ {k}, nbOf)

\* C8 as claimed: the column removed from Bbus and Bf is that of bus 0 for a
\* vector or matrix slack and that of the slack bus s for a single slack bus s.
C8_ReferenceIsSlack ==
    pc = "done" =>
        /\ slack.kind \in {"vector", "matrix"} => ptdf.noref = AllBut(0)
        /\ slack.kind \in {"none", "scalar"} =>
            ptdf.noref = AllBut(SingleSlack) /\ ptdf.noslack = AllBut(SingleSlack)

\* Bf[:, noref] = H[:, noslack] * Bbus[ix_(noslack, noref)]
ReducedSystemHolds(H, noslack, noref) ==
    LET Bbus == MakeBbus(nbOf, branch)
        Bf == MakeBf(nbOf, branch)
    IN  \A i \in DOMAIN H : \A c \in DOMAIN noref :
            RInt(Bf[i][noref[c]]) =
                RSeqSum([r \in DOMAIN noslack |->
                    RMul(H[i][noslack[r]], RInt(Bbus[noslack[r]][noref[c]]))])

\* C8 amended: the column removed from Bbus and from Bf is always that of bus 0;
\* the slack bus (s for a single slack bus, bus 0 for a vector or a matrix)
\* picks the rows of Bbus that are kept, and for a single slack bus the matrix
\* returned solves that reduced system.
C8_ReferenceIsBusZero ==
    pc = "done" =>
        /\ ptdf.noref = AllBut(0)
        /\ ptdf.slack_bus = (IF slack.kind \in {"vector", "matrix"} THEN 0 ELSE SingleSlack)
        /\ ptdf.noslack = AllBut(ptdf.slack_bus)
        /\ (ptdf.outcome = "returned" /\ slack.kind \in {"none", "scalar"}) =>
            ReducedSystemHolds(ptdf.H, AllBut(SingleSlack), AllBut(0))

C8_Witness ==
    /\ Returned
    /\ slack.kind = "scalar" /\ slack.s = 2
    /\ ptdf.noref = <<1, 2>> /\ ptdf.noslack = <<0, 1>>
    /\ Len(branch) = 3

----------------------------------------------------------------------------
\* Properties of opf_costfcn.

CostDone == pc = "done" /\ cost # NoCall

Coords == DOMAIN x
GenRows == DOMAIN om.cp.N
PgOffsets == om.vv.i1.Pg..(om.vv.iN.Pg - 1)
QgOffsets == om.vv.i1.Qg..(om.vv.iN.Qg - 1)
YOffsets == om.vv.i1.y..(om.vv.iN.y - 1)
HasQcost == Cardinality(DOMAIN om.gencost) > om.ng

\* x + d * e_k
Shifted(k, d) == [x EXCEPT ![k] = @ + d]

\* the gencost row that prices coordinate k of x: row i for Pg[i], row ng + i
\* for Qg[i] when reactive costs are present, -1 for every other coordinate
CostRowOf(k) ==
    IF k \in PgOffsets THEN k - om.vv.i1.Pg
    ELSE IF k \in QgOffsets /\ HasQcost THEN om.ng + k - om.vv.i1.Qg
    ELSE -1

\* the coordinate of x that gencost row r prices
CoordOfRow(r) ==
    IF r < om.ng THEN om.vv.i1.Pg + r ELSE om.vv.i1.Qg + (r - om.ng)

PolyRows == {r \in DOMAIN om.gencost : om.gencost[r].MODEL = POLYNOMIAL}

\* the polynomial of row r, or its derivative, at the row's entry of [Pg, Qg] * baseMVA
RowPoly(r, der) == polycost(om.gencost[r], x[CoordOfRow(r)] * om.baseMVA, der)

ColumnOfNZero(k) == \A i \in GenRows : om.cp.N[i][k] = 0

\* r of row i at the decision vector xv
ResidualAt(i, xv) ==
    SeqSum([k \in 1..Cardinality(Coords) |-> om.cp.N[i][k - 1] * xv[k - 1]]) - om.cp.rh[i]

\* below the dead zone, above it, or neither
ZoneAt(i, xv) ==
    IF ResidualAt(i, xv) < -om.cp.kk[i] THEN "below"
    ELSE IF ResidualAt(i, xv) > om.cp.kk[i] THEN "above"
    ELSE "inside"

\* along e_k the objective is at most quadratic and no row changes zone between
\* x - e_k and x + e_k
ExactAlong(k) ==
    /\ CostRowOf(k) \in PolyRows => Len(om.gencost[CostRowOf(k)].COST) <= 3
    /\ \A i \in GenRows :
        om.cp.N[i][k] # 0 =>
            /\ om.cp.dd[i] = 1 \/ \A a \in GenRows, b \in GenRows : om.cp.H[a][b] = 0
            /\ ZoneAt(i, Shifted(k, -1)) = ZoneAt(i, x)
            /\ ZoneAt(i, Shifted(k, 1)) = ZoneAt(i, x)

\* C3: for every coordinate k the central difference of f (eps = 1, exact when f
\* is at most quadratic along e_k and no row changes zone) equals df[k].
C3_CentralDifference ==
    CostDone =>
        \A k \in Coords :
            ExactAlong(k) =>
                RSub(opf_costfcn(Shifted(k, 1), om).f, opf_costfcn(Shifted(k, -1), om).f)
                    = RInt(2 * cost.df[k])

\* C4: with N all zero d2f is diagonal; at the offset of Pg[i] it holds
\* baseMVA^2 times the second derivative of row i at Pg[i]*baseMVA if that row
\* is polynomial, at the offset of Qg[i] (reactive costs present) the same for
\* row ng + i, and 0 everywhere else.
C4_PolynomialHessian ==
    (CostDone /\ ~cost.anyN) =>
        \A k \in Coords, l \in Coords :
            cost.d2f[k][l] =
                IF k = l /\ CostRowOf(k) \in PolyRows
                THEN om.baseMVA * om.baseMVA * RowPoly(CostRowOf(k), 2)
                ELSE 0

RowGrad(i, k) == cost.gen.AA[k][i] * cost.gen.HwC[i]

AllKkZero == \A i \in GenRows : om.cp.kk[i] = 0

\* the call without the generalized cost term
PlainFrame == opf_costfcn(x, [om EXCEPT !.cp = EmptyCp])

C9_DeadZone ==
    (CostDone /\ cost.anyN) =>
        \A i \in GenRows :
            LET g == cost.gen
                below == g.r[i] < -om.cp.kk[i]
                above == g.r[i] > om.cp.kk[i]
            IN  /\ below => g.rr[i] = g.r[i] + om.cp.kk[i]
                /\ above => g.rr[i] = g.r[i] - om.cp.kk[i]
                /\ (below \/ above) =>
                    g.w[i] = (IF om.cp.dd[i] = 1 THEN om.cp.mm[i] * g.rr[i]
                              ELSE om.cp.mm[i] * g.rr[i] * g.rr[i])
                /\ (~below /\ ~above /\ om.cp.kk[i] > 0) =>
                    /\ g.w[i] = 0
                    /\ \A k \in Coords : RowGrad(i, k) = 0
                    /\ \A k \in Coords, l \in Coords :
                        /\ \A j \in GenRows : g.AA[k][i] * om.cp.H[i][j] * g.AA[l][j] = 0
                        /\ om.cp.N[i][k] * g.M[i] * g.HwC[i] * om.cp.N[i][l] = 0

\* C10: with N all zero and some polynomial row, f is the sum of the polynomials
\* of the polynomial rows at their entries of [Pg, Qg]*baseMVA plus the sum of
\* the helper variables.
C10_PolynomialObjective ==
    (CostDone /\ ~cost.anyN /\ PolyRows # {}) =>
        cost.f = RInt(
            SeqSum([n \in 1..Cardinality(DOMAIN om.gencost) |->
                        IF (n - 1) \in PolyRows THEN RowPoly(n - 1, 0) ELSE 0])
            + SeqSum([n \in 1..Cardinality(Coords) |->
                        IF (n - 1) \in YOffsets THEN x[n - 1] ELSE 0]))

====
